---- MODULE Spec2Model ----
(***************************************************************************)
(* Conversation and messaging subsystem of cronoapi: the Conversation and  *)
(* Message mongoose models (src/models/Message.js) and the express routes  *)
(* that mutate them (src/routes/users.js, messages.js, chat.js).           *)
(*                                                                         *)
(* Store semantics used throughout (mongoose on MongoDB):                  *)
(*  - Model.create / new Model().save() run schema validation and the      *)
(*    pre('save') hooks, then insert the document;                         *)
(*  - save() of a loaded document runs the same hooks and then sends only  *)
(*    the delta of the modified paths as one atomic update: an array       *)
(*    push() becomes $push, an assignment becomes $set.  A delta that      *)
(*    touches a path inside an array element, or $sets an array, carries   *)
(*    the loaded version key __v in its filter and fails with a            *)
(*    VersionError when the stored __v differs; every array delta          *)
(*    increments __v;                                                      *)
(*  - pushing a plain object onto a document array casts it to a new       *)
(*    subdocument: the array holds the cast copy, not the object pushed;   *)
(*  - updateMany / findByIdAndUpdate bypass the hooks and are atomic per   *)
(*    document.                                                            *)
(***************************************************************************)
EXTENDS Integers, Sequences, FiniteSets, TLC

(***************************************************************************)
(* Bounds of the model.                                                    *)
(***************************************************************************)
MaxConvs == 2       \* conversation ids available to the store
MaxMsgs == 2        \* message ids available to the store
MaxThread == 1      \* messages sent in the reaction and read-receipt specifications
MaxSent == 2        \* latest creation time of a message in the reply and preview specifications
MaxEdits == 2       \* edit / delete requests started in one run of the lifecycle specification
MaxInflight == 2    \* requests that can be in flight at once
MaxRequests == 4    \* reaction / mark-read requests started in one run
MaxConns == 2       \* socket.io connections
MaxInbox == 2       \* events a connection has received when a new request may still start

(***************************************************************************)
(* Directory (external collaborator): users, their company and role.       *)
(***************************************************************************)
Users == {"A", "B", "C", "X"}

\* The users who send requests in the conversation specification.
Callers == {"A", "B", "C"}

\* User.companyId: A, B and C belong to one tenant, X to another.
CompanyOf(u) == IF u = "X" THEN "other" ELSE "acme"

\* User.role: A and X are administrators, the others plain users.
RoleOf(u) == IF u \in {"A", "X"} THEN "admin" ELSE "user"

\* Users who send requests in the message specifications: two participants
\* of the conversation and a user of another company.
MsgCallers == {"A", "B", "X"}

ConvIds == 1..MaxConvs
MsgIds == 1..MaxMsgs
Slots == 1..MaxInflight

NoUser == "none"
NoTitle == "none"

\* An optional field of a request body: the empty set when the body does not
\* carry the key, else the set of its one value.
Opt(S) == {{}} \cup {{x} : x \in S}
Given(o) == o # {}
ValueOf(o) == CHOOSE x \in o : TRUE

(***************************************************************************)
(* Participants array of a conversation.  The order of the array is never  *)
(* read by the code modelled here, so it is kept as a multiset: the number *)
(* of times each user id occurs in the array.                              *)
(***************************************************************************)
RECURSIVE SumOver(_, _)
SumOver(f, S) == IF S = {} THEN 0
                 ELSE LET x == CHOOSE y \in S : TRUE
                      IN f[x] + SumOver(f, S \ {x})

EmptyParticipants == [u \in Users |-> 0]

\* participants.length
PLen(p) == SumOver(p, Users)

\* the distinct user ids of the array
PSet(p) == {u \in Users : p[u] > 0}

\* participants.includes(u) / participants.some(id => id.equals(u))
PIncludes(p, u) == p[u] > 0

\* participants.push(u)
PPush(p, u) == [p EXCEPT ![u] = @ + 1]

\* participants.filter(id => !id.equals(u))
PFilterOut(p, u) == [p EXCEPT ![u] = 0]

\* the array [u, v, ...] given as a set of distinct ids
POfSet(S) == [u \in Users |-> IF u \in S THEN 1 ELSE 0]

\* the two-element array [u, v] (u = v gives a duplicate)
POfPair(u, v) == PPush(PPush(EmptyParticipants, u), v)


(***************************************************************************)
(* State.                                                                  *)
(***************************************************************************)
VARIABLES
    convs,      \* Conversation collection: conversation id -> document
    msgs,       \* Message collection: message id -> document
    reqs,       \* requests in flight: slot -> the handler's position and locals
    started,    \* number of message requests started so far
    resp,       \* the last HTTP response sent
    io          \* socket.io server: connection -> its rooms and the events it got

vars == <<convs, msgs, reqs, started, resp, io>>

NoText == <<>>      \* a null text

\* Titles a client sends; 'Direct Message' is the one the model method uses.
Titles == {"general"}
DirectTitle == "Direct Message"

\* A slot of the Conversation collection that holds no document.
NoConv == [exists |-> FALSE, title |-> NoTitle, participants |-> EmptyParticipants,
           createdBy |-> NoUser, isGroup |-> FALSE, isActive |-> FALSE,
           lastMessage |-> NoText, lastMessageAt |-> 0]

\* new Conversation({title, participants, createdBy, isGroup}) with the
\* schema defaults (isActive true, lastMessage null, lastMessageAt null).
NewConversation(title, participants, createdBy, isGroup) ==
    [exists |-> TRUE, title |-> title, participants |-> participants,
     createdBy |-> createdBy, isGroup |-> isGroup, isActive |-> TRUE,
     lastMessage |-> NoText, lastMessageAt |-> 0]

\* Schema validation run by save(): title is required.
ConvValid(doc) == doc.title # NoTitle

\* conversationSchema.pre('save'): put the creator back into participants,
\* refuse fewer than 2 participants, raise isGroup when there are more than 2.
ConvWithCreator(doc) ==
    IF ~PIncludes(doc.participants, doc.createdBy)
    THEN [doc EXCEPT !.participants = PPush(@, doc.createdBy)]
    ELSE doc

ConvPreSaveOk(doc) == PLen(ConvWithCreator(doc).participants) >= 2

ConvPreSave(doc) ==
    LET d == ConvWithCreator(doc)
    IN IF PLen(d.participants) > 2 THEN [d EXCEPT !.isGroup = TRUE] ELSE d

\* document.save(): TRUE when validation and the hook let the write through.
ConvSaveOk(doc) == ConvValid(doc) /\ ConvPreSaveOk(doc)

\* conversationSchema.methods.hasParticipant
HasParticipant(doc, u) == PIncludes(doc.participants, u)

\* conversationSchema.methods.addParticipant, up to its save()
AddParticipantDoc(doc, u) ==
    IF ~PIncludes(doc.participants, u)
    THEN LET p == PPush(doc.participants, u)
         IN [doc EXCEPT !.participants = p,
                        !.isGroup = IF PLen(p) > 2 THEN TRUE ELSE @]
    ELSE doc

\* conversationSchema.methods.removeParticipant, up to its save()
RemoveParticipantDoc(doc, u) ==
    LET p == PFilterOut(doc.participants, u)
    IN [doc EXCEPT !.participants = p,
                   !.isGroup = IF PLen(p) <= 2 THEN FALSE ELSE @]

\* Ids the store has not handed out; a new document takes the lowest.
FreeConvIds == {c \in ConvIds : ~convs[c].exists}
NewConvId == CHOOSE c \in FreeConvIds : \A d \in FreeConvIds : c <= d

\* The response a handler sends: the route and the HTTP status.
Response(op, status) == [op |-> op, status |-> status]

(***************************************************************************)
(* Conversation routes (src/routes/users.js, conversations router).  Each  *)
(* action is one request handled from its first line to its response.      *)
(***************************************************************************)

\* Participants arrays a POST /api/conversations body carries: any non-empty
\* array of distinct ids, or one with an id repeated.
CreateParticipantInputs ==
    {POfSet(S) : S \in (SUBSET Callers) \ {{}}} \cup {POfPair(u, u) : u \in Callers}

\* User.find({_id: {$in: participants}, companyId, isActive: true}).length
CompanyUsersIn(p, company) == Cardinality({u \in PSet(p) : CompanyOf(u) = company})

\* POST /api/conversations
CreateConversation(caller, title, participantsIn, isGroupIn) ==
    LET p == IF ~PIncludes(participantsIn, caller)
             THEN PPush(participantsIn, caller) ELSE participantsIn
        doc == NewConversation(title, p, caller,
                               (Given(isGroupIn) /\ ValueOf(isGroupIn)) \/ PLen(p) > 2)
    IN /\ IF CompanyUsersIn(p, CompanyOf(caller)) # PLen(p)
          THEN /\ resp' = Response("createConversation", 400)
               /\ UNCHANGED convs
          ELSE IF ~ConvSaveOk(doc)
          THEN /\ resp' = Response("createConversation", 500)
               /\ UNCHANGED convs
          ELSE /\ FreeConvIds # {}
               /\ convs' = [convs EXCEPT ![NewConvId] = ConvPreSave(doc)]
               /\ resp' = Response("createConversation", 201)
       /\ UNCHANGED <<msgs, reqs, started>>

\* Conversation.findOne({participants: {$all: [u1, u2]}, isGroup: false,
\* isActive: true}) of findOrCreateDirectConversation: the matching documents.
DirectMatches(u1, u2) ==
    {c \in ConvIds : /\ convs[c].exists
                     /\ PIncludes(convs[c].participants, u1)
                     /\ PIncludes(convs[c].participants, u2)
                     /\ ~convs[c].isGroup
                     /\ convs[c].isActive}

\* The document findOrCreateDirectConversation builds when it finds none.
DirectNewDoc(u1, u2) == NewConversation(DirectTitle, POfPair(u1, u2), u1, FALSE)

\* Checks of POST /api/conversations/direct before the model method is
\* called: 0 when they pass, else the status sent.
DirectRefusal(caller, participantId) ==
    IF participantId = NoUser THEN 400
    ELSE IF CompanyOf(participantId) # CompanyOf(caller) THEN 404
    ELSE IF participantId = caller THEN 400
    ELSE 0

\* POST /api/conversations/direct, run without another request in between.
CreateDirect(caller, participantId) ==
    /\ IF DirectRefusal(caller, participantId) # 0
       THEN /\ resp' = Response("createDirect", DirectRefusal(caller, participantId))
            /\ UNCHANGED convs
       ELSE IF DirectMatches(caller, participantId) # {}
       THEN /\ \E c \in DirectMatches(caller, participantId) :
                   resp' = Response("createDirect", 200)
            /\ UNCHANGED convs
       ELSE IF ~ConvSaveOk(DirectNewDoc(caller, participantId))
       THEN /\ resp' = Response("createDirect", 500)
            /\ UNCHANGED convs
       ELSE /\ FreeConvIds # {}
            /\ convs' = [convs EXCEPT
                           ![NewConvId] = ConvPreSave(DirectNewDoc(caller, participantId))]
            /\ resp' = Response("createDirect", 200)
    /\ UNCHANGED <<msgs, reqs, started>>

\* Bodies of PUT /api/conversations/:id.  validateConversationUpdate checks
\* title, description and participants (an array of at least 2 ids) when they
\* are present and lets every other key through.  The participants arrays
\* tried here hold one pair of ids.
UpdateParticipantInputs == {POfPair("B", "C")}

\* The bodies tried: each carries one key.
EmptyBody == [title |-> {}, participants |-> {}, isGroup |-> {}, isActive |-> {}]

UpdateBodies ==
    {[EmptyBody EXCEPT !.title = {t}] : t \in Titles}
    \cup {[EmptyBody EXCEPT !.participants = {p}] : p \in UpdateParticipantInputs}
    \cup {[EmptyBody EXCEPT !.isGroup = {b}] : b \in BOOLEAN}
    \cup {[EmptyBody EXCEPT !.isActive = {b}] : b \in BOOLEAN}

\* Object.keys(req.body).forEach(key => conversation[key] = req.body[key])
AssignBody(doc, body) ==
    [doc EXCEPT
       !.title = IF Given(body.title) THEN ValueOf(body.title) ELSE @,
       !.participants = IF Given(body.participants) THEN ValueOf(body.participants) ELSE @,
       !.isGroup = IF Given(body.isGroup) THEN ValueOf(body.isGroup) ELSE @,
       !.isActive = IF Given(body.isActive) THEN ValueOf(body.isActive) ELSE @]

\* PUT /api/conversations/:id
UpdateConversation(caller, c, body) ==
    LET doc == AssignBody(convs[c], body)
    IN /\ IF ~convs[c].exists
          THEN /\ resp' = Response("updateConversation", 404)
               /\ UNCHANGED convs
          ELSE IF ~HasParticipant(convs[c], caller)
          THEN /\ resp' = Response("updateConversation", 403)
               /\ UNCHANGED convs
          ELSE IF ~ConvSaveOk(doc)
          THEN /\ resp' = Response("updateConversation", 500)
               /\ UNCHANGED convs
          ELSE /\ convs' = [convs EXCEPT ![c] = ConvPreSave(doc)]
               /\ resp' = Response("updateConversation", 200)
       /\ UNCHANGED <<msgs, reqs, started>>

\* POST /api/conversations/:id/participants
AddParticipant(caller, c, userId) ==
    LET doc == AddParticipantDoc(convs[c], userId)
    IN /\ IF ~convs[c].exists
          THEN /\ resp' = Response("addParticipant", 404)
               /\ UNCHANGED convs
          ELSE IF ~HasParticipant(convs[c], caller)
          THEN /\ resp' = Response("addParticipant", 403)
               /\ UNCHANGED convs
          ELSE IF HasParticipant(convs[c], userId)
          THEN /\ resp' = Response("addParticipant", 400)
               /\ UNCHANGED convs
          ELSE IF ~ConvSaveOk(doc)
          THEN /\ resp' = Response("addParticipant", 500)
               /\ UNCHANGED convs
          ELSE /\ convs' = [convs EXCEPT ![c] = ConvPreSave(doc)]
               /\ resp' = Response("addParticipant", 200)
       /\ UNCHANGED <<msgs, reqs, started>>

\* The route without its rule that a plain user removes only themselves.
RemoveParticipantAnyone(caller, c, userId) ==
    LET doc == RemoveParticipantDoc(convs[c], userId)
    IN /\ IF ~convs[c].exists
          THEN /\ resp' = Response("removeParticipant", 404)
               /\ UNCHANGED convs
          ELSE IF ~HasParticipant(convs[c], caller)
          THEN /\ resp' = Response("removeParticipant", 403)
               /\ UNCHANGED convs
          ELSE IF ~HasParticipant(convs[c], userId)
          THEN /\ resp' = Response("removeParticipant", 400)
               /\ UNCHANGED convs
          ELSE IF ~ConvSaveOk(doc)
          THEN /\ resp' = Response("removeParticipant", 500)
               /\ UNCHANGED convs
          ELSE /\ convs' = [convs EXCEPT ![c] = ConvPreSave(doc)]
               /\ resp' = Response("removeParticipant", 200)
       /\ UNCHANGED <<msgs, reqs, started>>

\* DELETE /api/conversations/:id/participants/:userId
RemoveParticipant(caller, c, userId) ==
    LET doc == RemoveParticipantDoc(convs[c], userId)
    IN /\ IF ~convs[c].exists
          THEN /\ resp' = Response("removeParticipant", 404)
               /\ UNCHANGED convs
          ELSE IF ~HasParticipant(convs[c], caller)
          THEN /\ resp' = Response("removeParticipant", 403)
               /\ UNCHANGED convs
          ELSE IF RoleOf(caller) # "admin" /\ userId # caller
          THEN /\ resp' = Response("removeParticipant", 403)
               /\ UNCHANGED convs
          ELSE IF ~HasParticipant(convs[c], userId)
          THEN /\ resp' = Response("removeParticipant", 400)
               /\ UNCHANGED convs
          ELSE IF ~ConvSaveOk(doc)
          THEN /\ resp' = Response("removeParticipant", 500)
               /\ UNCHANGED convs
          ELSE /\ convs' = [convs EXCEPT ![c] = ConvPreSave(doc)]
               /\ resp' = Response("removeParticipant", 200)
       /\ UNCHANGED <<msgs, reqs, started>>

\* DELETE /api/conversations/:id (soft delete)
DeleteConversation(caller, c) ==
    LET doc == [convs[c] EXCEPT !.isActive = FALSE]
        canDelete == \/ RoleOf(caller) = "admin"
                     \/ convs[c].createdBy = caller
                     \/ HasParticipant(convs[c], caller)
    IN /\ IF ~convs[c].exists
          THEN /\ resp' = Response("deleteConversation", 404)
               /\ UNCHANGED convs
          ELSE IF ~canDelete
          THEN /\ resp' = Response("deleteConversation", 403)
               /\ UNCHANGED convs
          ELSE IF ~ConvSaveOk(doc)
          THEN /\ resp' = Response("deleteConversation", 500)
               /\ UNCHANGED convs
          ELSE /\ convs' = [convs EXCEPT ![c] = ConvPreSave(doc)]
               /\ resp' = Response("deleteConversation", 200)
       /\ UNCHANGED <<msgs, reqs, started>>

(***************************************************************************)
(* Chat routes on conversations (src/routes/chat.js).  Their queries       *)
(* filter on companyId, a path the Conversation schema does not declare:   *)
(* with strictQuery on, mongoose drops the condition; with it off, the     *)
(* condition stays and matches no stored document.  Which one applies      *)
(* depends on the mongoose release installed, so both are allowed.         *)
(***************************************************************************)
CompanyFilterPasses(strictQuery) == strictQuery

\* Conversation.findOne({companyId, title: /^name$/i, isGroup: true})
ChannelMatches(name, strictQuery) ==
    {c \in ConvIds : /\ convs[c].exists
                     /\ CompanyFilterPasses(strictQuery)
                     /\ convs[c].title = name
                     /\ convs[c].isGroup}

\* POST /api/chat/channels
ChatCreateChannel(caller, name) ==
    LET doc == NewConversation(name, POfSet({caller}), caller, TRUE)
    IN /\ \E strictQuery \in BOOLEAN :
            IF ChannelMatches(name, strictQuery) # {}
            THEN /\ resp' = Response("createChannel", 400)
                 /\ UNCHANGED convs
            ELSE IF ~ConvSaveOk(doc)
            THEN /\ resp' = Response("createChannel", 500)
                 /\ UNCHANGED convs
            ELSE /\ FreeConvIds # {}
                 /\ convs' = [convs EXCEPT ![NewConvId] = ConvPreSave(doc)]
                 /\ resp' = Response("createChannel", 201)
       /\ UNCHANGED <<msgs, reqs, started>>

\* Conversation.findOne({companyId, isGroup: false,
\*                       participants: {$all: [caller, userId], $size: 2}})
ChatDirectMatches(caller, userId, strictQuery) ==
    {c \in ConvIds : /\ convs[c].exists
                     /\ CompanyFilterPasses(strictQuery)
                     /\ ~convs[c].isGroup
                     /\ PIncludes(convs[c].participants, caller)
                     /\ PIncludes(convs[c].participants, userId)
                     /\ PLen(convs[c].participants) = 2}

\* POST /api/chat/direct-messages
ChatDirectMessage(caller, userId) ==
    LET doc == NewConversation(NoTitle, POfPair(caller, userId), caller, FALSE)
    IN /\ \E strictQuery \in BOOLEAN :
            IF ChatDirectMatches(caller, userId, strictQuery) # {}
            THEN /\ \E c \in ChatDirectMatches(caller, userId, strictQuery) :
                        \* participants.find(p => p._id != caller) is undefined
                        \* when every entry is the caller: the handler throws
                        resp' = Response("chatDirect", IF PSet(convs[c].participants) = {caller} THEN 500 ELSE 200)
                 /\ UNCHANGED convs
            ELSE IF ~ConvSaveOk(doc)
            THEN /\ resp' = Response("chatDirect", 500)
                 /\ UNCHANGED convs
            ELSE /\ FreeConvIds # {}
                 /\ convs' = [convs EXCEPT ![NewConvId] = ConvPreSave(doc)]
                 /\ resp' = Response("chatDirect", 200)
       /\ UNCHANGED <<msgs, reqs, started>>

(***************************************************************************)
(* Message documents (messageSchema, src/models/Message.js).               *)
(***************************************************************************)

\* Message texts are sequences of characters.
Texts == {<<"h", "i">>}

\* A slot of the Message collection that holds no document.
NoMsg == [exists |-> FALSE, text |-> NoText, senderId |-> NoUser, conversationId |-> 0,
          messageType |-> "text", isEdited |-> FALSE, isDeleted |-> FALSE,
          reactions |-> <<>>, deliveryStatus |-> "sent", readBy |-> <<>>,
          createdAt |-> 0, v |-> 0, replyTo |-> 0, attachments |-> <<>>,
          deletedBy |-> NoUser]

\* new Message(messageData) with the schema defaults; v is the version key __v,
\* replyTo is 0 for null.  File uploads are left out: attachments stays empty.
NewMessage(text, senderId, conversationId, createdAt) ==
    [exists |-> TRUE, text |-> text, senderId |-> senderId,
     conversationId |-> conversationId, messageType |-> "text",
     isEdited |-> FALSE, isDeleted |-> FALSE, reactions |-> <<>>,
     deliveryStatus |-> "sent", readBy |-> <<>>, createdAt |-> createdAt, v |-> 0,
     replyTo |-> 0, attachments |-> <<>>, deletedBy |-> NoUser]

SeqIncludes(seq, x) == \E i \in 1..Len(seq) : seq[i] = x

\* array.filter(keep)
RECURSIVE SeqFilterOut(_, _)
SeqFilterOut(seq, x) ==
    IF seq = <<>> THEN <<>>
    ELSE IF Head(seq) = x THEN SeqFilterOut(Tail(seq), x)
    ELSE <<Head(seq)>> \o SeqFilterOut(Tail(seq), x)

\* this.reactions.find(r => r.emoji === emoji): the index of the first entry
\* with that emoji, 0 when there is none.
FindReaction(reactions, emoji) ==
    IF \E i \in 1..Len(reactions) : reactions[i].emoji = emoji
    THEN CHOOSE i \in 1..Len(reactions) :
            /\ reactions[i].emoji = emoji
            /\ \A j \in 1..(i - 1) : reactions[j].emoji # emoji
    ELSE 0

\* this.reactions.filter(r => r.emoji !== emoji)
RECURSIVE DropEmoji(_, _)
DropEmoji(reactions, emoji) ==
    IF reactions = <<>> THEN <<>>
    ELSE IF Head(reactions).emoji = emoji THEN DropEmoji(Tail(reactions), emoji)
    ELSE <<Head(reactions)>> \o DropEmoji(Tail(reactions), emoji)

\* The subdocument this.reactions.push({emoji, users: [], count: 0}) stores.
\* push() casts the plain object to a new subdocument, so the userId that
\* addReaction pushes onto the plain object afterwards never reaches it.
PushedReaction(emoji) == [emoji |-> emoji, users |-> <<>>, count |-> 0]

\* messageSchema.methods.addReaction, up to its save()
AddReactionDoc(doc, userId, emoji) ==
    LET i == FindReaction(doc.reactions, emoji)
    IN IF i = 0
       THEN [doc EXCEPT !.reactions = Append(@, PushedReaction(emoji))]
       ELSE IF ~SeqIncludes(doc.reactions[i].users, userId)
       THEN [doc EXCEPT !.reactions[i].users = Append(@, userId),
                        !.reactions[i].count = Len(doc.reactions[i].users) + 1]
       ELSE doc

\* messageSchema.methods.removeReaction, up to its save()
RemoveReactionDoc(doc, userId, emoji) ==
    LET i == FindReaction(doc.reactions, emoji)
        users == SeqFilterOut(doc.reactions[i].users, userId)
    IN IF i = 0 THEN doc
       ELSE IF Len(users) = 0
       THEN [doc EXCEPT !.reactions = DropEmoji(@, emoji)]
       ELSE [doc EXCEPT !.reactions[i].users = users,
                        !.reactions[i].count = Len(users)]

\* messageSchema.methods.markAsRead, up to its save()
MarkAsReadDoc(doc, userId) ==
    IF ~SeqIncludes(doc.readBy, userId)
    THEN [doc EXCEPT !.readBy = Append(@, userId), !.deliveryStatus = "read"]
    ELSE doc

\* The text softDelete leaves in a deleted message.
Tombstone ==
    <<"[", "M", "e", "s", "s", "a", "g", "e", " ", "d", "e", "l", "e", "t", "e", "d", "]">>

\* messageSchema.methods.softDelete, up to its save()
SoftDeleteDoc(doc, deletedBy) ==
    [doc EXCEPT !.isDeleted = TRUE, !.deletedBy = deletedBy,
                !.text = Tombstone, !.attachments = <<>>]

\* Second pre('save') hook (edit tracking): old is the document as loaded
\* (isNew is false for it), doc the document about to be saved.
MessageEditHook(old, doc) ==
    IF doc.text # old.text THEN [doc EXCEPT !.isEdited = TRUE] ELSE doc

\* First pre('save') hook: reaction.count = reaction.users.length
ReactionCount(reaction) == Len(reaction.users)

MessagePreSave(doc) ==
    [doc EXCEPT !.reactions =
        [i \in 1..Len(doc.reactions) |->
            [doc.reactions[i] EXCEPT !.count = ReactionCount(doc.reactions[i])]]]

\* The preview kept in Conversation.lastMessage.
PreviewCutLate(messageText) ==
    IF Len(messageText) > 200
    THEN SubSeq(messageText, 1, 200) \o <<".", ".", ".">>
    ELSE messageText

Preview(messageText) ==
    IF Len(messageText) > 200
    THEN SubSeq(messageText, 1, 197) \o <<".", ".", ".">>
    ELSE messageText

\* messageSchema.statics.updateConversationLastMessage
\* (Conversation.findByIdAndUpdate: no hook, nothing when the id is absent).
UpdateConversationLastMessage(cs, conversationId, messageText, timestamp) ==
    IF conversationId \in ConvIds /\ cs[conversationId].exists
    THEN [cs EXCEPT ![conversationId].lastMessage = Preview(messageText),
                    ![conversationId].lastMessageAt = timestamp]
    ELSE cs

\* The conversation collection after the first pre('save') hook of a message
\* has run: the hook refreshes the cache unless the message is deleted or a
\* system message.
AfterMessageHook(cs, doc) ==
    IF ~doc.isDeleted /\ doc.messageType # "system"
    THEN UpdateConversationLastMessage(cs, doc.conversationId, doc.text, doc.createdAt)
    ELSE cs

(***************************************************************************)
(* save() of a loaded message.  old is the document as loaded, new the     *)
(* document after the method and the hooks, cur the stored document.       *)
(***************************************************************************)

\* The reactions delta is a $push of one new entry onto the array.
PushesReaction(old, new) ==
    /\ Len(new.reactions) = Len(old.reactions) + 1
    /\ SubSeq(new.reactions, 1, Len(old.reactions)) = old.reactions

\* The delta modifies a path inside a reactions element or $sets the array:
\* mongoose then puts the loaded __v into the update's filter.
NeedsVersionOff(old, new) == FALSE

NeedsVersion(old, new) ==
    new.reactions # old.reactions /\ ~PushesReaction(old, new)

\* The update operators of a delta on the paths reactions.<i>.users and
\* reactions.<i>.count, applied to the stored array: $push of the appended
\* user, $set of a replaced users array, $set of a changed count.
ElementUpdates(oldR, newR, curR) ==
    [i \in 1..Len(curR) |->
        IF i > Len(oldR) \/ newR[i] = oldR[i] THEN curR[i]
        ELSE [curR[i] EXCEPT
                !.users = IF newR[i].users = oldR[i].users THEN @
                          ELSE IF /\ Len(newR[i].users) = Len(oldR[i].users) + 1
                                  /\ SubSeq(newR[i].users, 1, Len(oldR[i].users)) = oldR[i].users
                          THEN Append(@, newR[i].users[Len(newR[i].users)])
                          ELSE newR[i].users,
                !.count = IF newR[i].count = oldR[i].count THEN @ ELSE newR[i].count]]

\* The stored reactions array after the delta is applied.
SavedReactions(old, new, cur) ==
    IF new.reactions = old.reactions THEN cur.reactions
    ELSE IF PushesReaction(old, new)
    THEN Append(cur.reactions, new.reactions[Len(new.reactions)])
    ELSE IF Len(new.reactions) = Len(old.reactions)
    THEN ElementUpdates(old.reactions, new.reactions, cur.reactions)
    ELSE new.reactions

\* The delta is a $push onto readBy.
PushesReadBy(old, new) == new.readBy # old.readBy

\* save() fails: the document is gone, or the version filter does not match.
SaveFails(old, new, cur) ==
    \/ ~cur.exists
    \/ NeedsVersion(old, new) /\ cur.v # old.v

\* The stored document after the delta is applied.
SavedMessage(old, new, cur) ==
    [cur EXCEPT
       !.reactions = SavedReactions(old, new, cur),
       !.readBy = IF PushesReadBy(old, new)
                  THEN @ \o SubSeq(new.readBy, Len(old.readBy) + 1, Len(new.readBy))
                  ELSE @,
       !.deliveryStatus = IF new.deliveryStatus # old.deliveryStatus
                          THEN new.deliveryStatus ELSE @,
       !.text = IF new.text # old.text THEN new.text ELSE @,
       !.isEdited = IF new.isEdited # old.isEdited THEN new.isEdited ELSE @,
       !.isDeleted = IF new.isDeleted # old.isDeleted THEN new.isDeleted ELSE @,
       !.deletedBy = IF new.deletedBy # old.deletedBy THEN new.deletedBy ELSE @,
       !.v = IF new.reactions # old.reactions \/ PushesReadBy(old, new)
             THEN @ + 1 ELSE @]

FreeMsgIds == {m \in MsgIds : ~msgs[m].exists}
NewMsgId == CHOOSE m \in FreeMsgIds : \A n \in FreeMsgIds : m <= n

\* new Date() at message creation: later than every stored message.
RECURSIVE MaxOf(_)
MaxOf(S) == IF S = {} THEN 0
            ELSE LET x == CHOOSE y \in S : TRUE
                     r == MaxOf(S \ {x})
                 IN IF x > r THEN x ELSE r

Now == 1 + MaxOf({msgs[m].createdAt : m \in MsgIds})

(***************************************************************************)
(* Initial state: empty collections, no request in flight.                 *)
(***************************************************************************)
IdleReq == [pc |-> "idle"]
NoResponse == Response("none", 0)

\* The socket.io connections: each has the rooms it joined (one room per
\* conversation, "conversation-<id>") and the events delivered to it.  In
\* the specifications of the HTTP routes alone no connection is open: an
\* emit of a handler reaches nobody there and io stays as it is.
Conns == 1..MaxConns
NoSocket == [connected |-> FALSE, rooms |-> {}, inbox |-> <<>>]
NoSockets == [k \in Conns |-> NoSocket]

Init ==
    /\ convs = [c \in ConvIds |-> NoConv]
    /\ msgs = [m \in MsgIds |-> NoMsg]
    /\ reqs = [s \in Slots |-> IdleReq]
    /\ started = 0
    /\ resp = NoResponse
    /\ io = NoSockets

(***************************************************************************)
(* SpecConv: the conversation routes, one request at a time.               *)
(***************************************************************************)
NextConv ==
    \/ \E caller \in Callers, title \in Titles, p \in CreateParticipantInputs,
          g \in Opt(BOOLEAN) : CreateConversation(caller, title, p, g) /\ UNCHANGED io
    \/ \E caller \in Callers, other \in Callers \cup {NoUser} : CreateDirect(caller, other) /\ UNCHANGED io
    \/ \E caller \in Callers, c \in ConvIds, body \in UpdateBodies :
          UpdateConversation(caller, c, body) /\ UNCHANGED io
    \/ \E caller \in Callers, c \in ConvIds, u \in Callers : AddParticipant(caller, c, u) /\ UNCHANGED io
    \/ \E caller \in Callers, c \in ConvIds, u \in Callers : RemoveParticipant(caller, c, u) /\ UNCHANGED io
    \/ \E caller \in Callers, c \in ConvIds : DeleteConversation(caller, c) /\ UNCHANGED io
    \/ \E caller \in Callers, name \in Titles : ChatCreateChannel(caller, name) /\ UNCHANGED io
    \/ \E caller \in Callers, u \in Callers : ChatDirectMessage(caller, u) /\ UNCHANGED io

SpecConv == Init /\ [][NextConv]_vars

(***************************************************************************)
(* SpecDirect: POST /api/conversations/direct with its awaits.  A request  *)
(* is split where the handler yields to the event loop: after the findOne  *)
(* of findOrCreateDirectConversation and after its save().                 *)
(***************************************************************************)

\* The handler up to the result of findOne.
DirectFind(s, caller, participantId) ==
    /\ reqs[s].pc = "idle"
    /\ IF DirectRefusal(caller, participantId) # 0
       THEN reqs' = [reqs EXCEPT ![s] =
                       [pc |-> "done", caller |-> caller, other |-> participantId,
                        status |-> DirectRefusal(caller, participantId), conv |-> 0]]
       ELSE IF DirectMatches(caller, participantId) # {}
       THEN \E c \in DirectMatches(caller, participantId) :
               reqs' = [reqs EXCEPT ![s] =
                          [pc |-> "done", caller |-> caller, other |-> participantId,
                           status |-> 200, conv |-> c]]
       ELSE reqs' = [reqs EXCEPT ![s] =
                       [pc |-> "create", caller |-> caller, other |-> participantId,
                        status |-> 0, conv |-> 0]]
    /\ UNCHANGED <<convs, msgs, started, resp>>

\* if (!conversation) { conversation = new this({...}); await conversation.save() }
DirectCreate(s) ==
    LET doc == DirectNewDoc(reqs[s].caller, reqs[s].other)
    IN /\ reqs[s].pc = "create"
       /\ IF ~ConvSaveOk(doc)
          THEN /\ reqs' = [reqs EXCEPT ![s].pc = "done", ![s].status = 500]
               /\ UNCHANGED convs
          ELSE /\ FreeConvIds # {}
               /\ convs' = [convs EXCEPT ![NewConvId] = ConvPreSave(doc)]
               /\ reqs' = [reqs EXCEPT ![s].pc = "done", ![s].status = 200,
                                       ![s].conv = NewConvId]
       /\ UNCHANGED <<msgs, started, resp>>

NextDirect ==
    \/ \E s \in Slots, caller \in Callers, other \in Users \cup {NoUser} :
          DirectFind(s, caller, other) /\ UNCHANGED io
    \/ \E s \in Slots : DirectCreate(s) /\ UNCHANGED io

SpecDirect == Init /\ [][NextDirect]_vars

(***************************************************************************)
(* Claims on the conversation store.                                       *)
(***************************************************************************)

\* The active direct conversations whose participants are exactly u and v.
ActiveDirectOf(u, v) ==
    {c \in ConvIds : /\ convs[c].exists
                     /\ convs[c].isActive
                     /\ ~convs[c].isGroup
                     /\ PSet(convs[c].participants) = {u, v}}

\* A remove-participant call that would bring the participant set below 2
\* answers with an error and leaves the participant set unchanged.
C1_RemoveBelowTwoFails ==
    \A caller \in Callers, c \in ConvIds, u \in Callers :
        ( /\ RemoveParticipant(caller, c, u)
          /\ convs[c].exists
          /\ HasParticipant(convs[c], u)
          /\ Cardinality(PSet(convs[c].participants) \ {u}) < 2 )
        => ( /\ resp'.status >= 400
             /\ convs'[c].participants = convs[c].participants )

\* Every persisted conversation has at least 2 participants.
C1_MinTwoParticipants ==
    \A c \in ConvIds : convs[c].exists => Cardinality(PSet(convs[c].participants)) >= 2

\* C1 (as claimed): every persisted conversation has at least 2
\* participants, and a remove-participant call that would bring the
\* participant set below 2 fails and leaves the participant set unchanged.
C1_Claim == [] C1_MinTwoParticipants /\ [][C1_RemoveBelowTwoFails]_vars

\* C2 (as claimed): after every conversation mutation isGroup equals
\* (number of participants > 2).
C2_Claim ==
    \A c \in ConvIds :
        convs[c].exists => (convs[c].isGroup <=> PLen(convs[c].participants) > 2)

\* C3 (as claimed): for every unordered pair of users there is at most one
\* active conversation with isGroup = false and exactly that pair as
\* participants.
C3_Claim ==
    \A u, v \in Users : u # v => Cardinality(ActiveDirectOf(u, v)) <= 1

\* C4 (as claimed): concurrently interleaved create-or-get-direct calls for a
\* pair all return the same conversation id, and once all calls have
\* completed exactly one active direct conversation exists for the pair.
C4_Claim ==
    /\ \A s, t \in Slots :
          ( /\ reqs[s].pc = "done" /\ reqs[s].status = 200
            /\ reqs[t].pc = "done" /\ reqs[t].status = 200
            /\ {reqs[s].caller, reqs[s].other} = {reqs[t].caller, reqs[t].other} )
          => reqs[s].conv = reqs[t].conv
    /\ (\A s \in Slots : reqs[s].pc # "create")
          => \A s \in Slots :
                (reqs[s].pc = "done" /\ reqs[s].status = 200)
                => Cardinality(ActiveDirectOf(reqs[s].caller, reqs[s].other)) = 1

(***************************************************************************)
(* Message requests.  A handler that loads a message and saves it later    *)
(* runs as two steps, so that other requests can take steps in between:    *)
(* every await in the handler lets them.                                   *)
(***************************************************************************)

Emojis == {"thumbsup", "heart"}

\* The store in which the message specifications start: the direct
\* conversation that POST /api/conversations/direct creates for A and B.
ChatStore ==
    [c \in ConvIds |-> IF c = 1 THEN ConvPreSave(DirectNewDoc("A", "B")) ELSE NoConv]

InitChat ==
    /\ convs = ChatStore
    /\ msgs = [m \in MsgIds |-> NoMsg]
    /\ reqs = [s \in Slots |-> IdleReq]
    /\ started = 0
    /\ resp = NoResponse
    /\ io = NoSockets

\* Conversation.updateLastMessage, up to its save()
UpdateLastMessageDoc(doc, messageText, timestamp) ==
    [doc EXCEPT !.lastMessage = Preview(messageText), !.lastMessageAt = timestamp]

\* POST /api/conversations/:id/messages with a text body
SendMessage(caller, c, text) ==
    IF ~convs[c].exists
    THEN /\ resp' = Response("sendMessage", 404)
         /\ UNCHANGED <<convs, msgs, reqs, started>>
    ELSE IF ~HasParticipant(convs[c], caller)
    THEN /\ resp' = Response("sendMessage", 403)
         /\ UNCHANGED <<convs, msgs, reqs, started>>
    ELSE /\ FreeMsgIds # {}
         /\ LET message == MessagePreSave(NewMessage(text, caller, c, Now))
                hooked == AfterMessageHook(convs, message)
                conversation == UpdateLastMessageDoc(convs[c], text, message.createdAt)
            IN /\ msgs' = [msgs EXCEPT ![NewMsgId] = message]
               /\ IF ConvSaveOk(conversation)
                  THEN /\ convs' = [hooked EXCEPT ![c] = ConvPreSave(conversation)]
                       /\ resp' = Response("sendMessage", 201)
                  ELSE /\ convs' = hooked
                       /\ resp' = Response("sendMessage", 500)
         /\ UNCHANGED <<reqs, started>>

\* Fewer than MaxThread messages are stored.
ThreadOpen == Cardinality(MsgIds \ FreeMsgIds) < MaxThread

\* The slot a new request takes: the lowest one that holds no request in
\* flight.  A finished request stays visible in its slot until then.
OpenSlots == {s \in Slots : reqs[s].pc \in {"idle", "done"}}
OpenSlot == CHOOSE s \in OpenSlots : \A t \in OpenSlots : s <= t

Request(pc, kind, caller, m, emoji, doc, status) ==
    [pc |-> pc, kind |-> kind, caller |-> caller, msg |-> m,
     emoji |-> emoji, doc |-> doc, status |-> status]

\* The early return of a message handler's access checks (Message.findById,
\* Conversation.findById, hasParticipant), 0 when the request passes them.
MessageRefusal(caller, m) ==
    IF ~msgs[m].exists THEN 404
    ELSE IF ~(/\ msgs[m].conversationId \in ConvIds
              /\ convs[msgs[m].conversationId].exists
              /\ HasParticipant(convs[msgs[m].conversationId], caller))
    THEN 403
    ELSE 0

\* A message request up to the end of its checks.  refusal is the status of
\* the handler's early return, 0 when it goes on with the loaded message.
\* The responses of the requests that finished earlier are dropped.
LoadMessage(kind, caller, m, emoji, refusal) ==
    /\ OpenSlots # {}
    /\ started < MaxRequests
    /\ started' = started + 1
    /\ IF refusal # 0
       THEN /\ resp' = Response(kind, refusal)
            /\ UNCHANGED reqs
       ELSE /\ reqs' = [s \in Slots |->
                  IF s = OpenSlot
                  THEN Request("loaded", kind, caller, m, emoji, msgs[m], 0)
                  ELSE IF reqs[s].pc = "done" THEN IdleReq ELSE reqs[s]]
            /\ UNCHANGED resp
    /\ UNCHANGED <<convs, msgs>>

\* The statuses save() can end with.  A save with an empty delta of a
\* document that was deleted meanwhile fails in the mongoose releases that
\* look the document up, and succeeds silently in the others.
SaveStatuses(old, new, cur) ==
    IF ~cur.exists /\ new = old THEN {200, 500}
    ELSE IF SaveFails(old, new, cur) THEN {500}
    ELSE {200}

\* save() of the message a request holds, and the response: the pre('save')
\* hooks run first (they refresh the conversation's cache whatever happens
\* to the write), then the delta is written.
SaveMessage(s, new) ==
    LET r == reqs[s]
        old == r.doc
        hooked == MessageEditHook(old, MessagePreSave(new))
        cur == msgs[r.msg]
    IN \E status \in SaveStatuses(old, hooked, cur) :
       /\ convs' = AfterMessageHook(convs, hooked)
       /\ msgs' = IF status = 200 /\ cur.exists
                  THEN [msgs EXCEPT ![r.msg] = SavedMessage(old, hooked, cur)]
                  ELSE msgs
       /\ reqs' = [reqs EXCEPT ![s] =
             Request("done", r.kind, r.caller, r.msg, r.emoji, NoMsg, status)]
       /\ resp' = Response(r.kind, status)
       /\ UNCHANGED started

\* POST /api/messages/:id/reactions, up to message.addReaction
AddReactionLoad(caller, m, emojiIn) ==
    IF ~Given(emojiIn)
    THEN LoadMessage("addReaction", caller, m, "", 400)
    ELSE LoadMessage("addReaction", caller, m, ValueOf(emojiIn), MessageRefusal(caller, m))

\* POST /api/messages/:id/reactions, message.addReaction and the response
AddReactionSave(s) ==
    /\ reqs[s].pc = "loaded"
    /\ reqs[s].kind = "addReaction"
    /\ SaveMessage(s, AddReactionDoc(reqs[s].doc, reqs[s].caller, reqs[s].emoji))

\* DELETE /api/messages/:id/reactions/:emoji, up to message.removeReaction
RemoveReactionLoad(caller, m, emoji) ==
    LoadMessage("removeReaction", caller, m, emoji, MessageRefusal(caller, m))

\* DELETE /api/messages/:id/reactions/:emoji, message.removeReaction and the response
RemoveReactionSave(s) ==
    /\ reqs[s].pc = "loaded"
    /\ reqs[s].kind = "removeReaction"
    /\ SaveMessage(s, RemoveReactionDoc(reqs[s].doc, reqs[s].caller, reqs[s].emoji))

NextReact ==
    \/ \E caller \in Callers, c \in ConvIds, text \in Texts :
          ThreadOpen /\ SendMessage(caller, c, text) /\ UNCHANGED io
    \/ \E caller \in Callers, m \in MsgIds, emojiIn \in Opt(Emojis) :
          AddReactionLoad(caller, m, emojiIn) /\ UNCHANGED io
    \/ \E s \in Slots : AddReactionSave(s) /\ UNCHANGED io
    \/ \E caller \in Callers, m \in MsgIds, emoji \in Emojis :
          RemoveReactionLoad(caller, m, emoji) /\ UNCHANGED io
    \/ \E s \in Slots : RemoveReactionSave(s) /\ UNCHANGED io

SpecReact == InitChat /\ [][NextReact]_vars

\* The number of places user u holds in the entries of emoji e.
ReactedTimes(doc, u, e) ==
    Cardinality({p \in {<<i, j>> : i \in 1..Len(doc.reactions), j \in 1..MaxRequests} :
                    /\ doc.reactions[p[1]].emoji = e
                    /\ p[2] <= Len(doc.reactions[p[1]].users)
                    /\ doc.reactions[p[1]].users[p[2]] = u})

UserSet(users) == {users[j] : j \in 1..Len(users)}

\* C5: in every persisted state, every reaction entry of every message has a
\* count equal to the number of user ids in its user set.
C5_Claim ==
    \A m \in MsgIds : \A i \in 1..Len(msgs[m].reactions) :
        /\ msgs[m].reactions[i].count = Cardinality(UserSet(msgs[m].reactions[i].users))
        /\ msgs[m].reactions[i].count = Len(msgs[m].reactions[i].users)

\* An entry holds two users, after two users added the emoji and one of them
\* added it again.
C5_Witness ==
    \E m \in MsgIds : \E i \in 1..Len(msgs[m].reactions) :
        /\ Len(msgs[m].reactions[i].users) = 2
        /\ started >= 3

\* An add-reaction request that saved successfully leaves its user exactly
\* once in the emoji's entries.
C6_AddEffective ==
    \A s \in Slots :
        (AddReactionSave(s) /\ reqs'[s].status = 200)
            => ReactedTimes(msgs'[reqs[s].msg], reqs[s].caller, reqs[s].emoji) = 1

\* An add-reaction by a user who already holds the emoji changes nothing.
C6_AddIdempotent ==
    \A s \in Slots :
        (AddReactionSave(s)
         /\ ReactedTimes(msgs[reqs[s].msg], reqs[s].caller, reqs[s].emoji) >= 1)
            => msgs'[reqs[s].msg].reactions = msgs[reqs[s].msg].reactions

\* C6: add-reaction is idempotent and effective: after a user's add, the
\* emoji's entry holds that user exactly once, and a repeated add leaves the
\* reaction list unchanged.
C6_Claim == [][C6_AddEffective /\ C6_AddIdempotent]_vars

\* C7: no persisted message holds a reaction entry with an empty user set.
C7_Claim ==
    \A m \in MsgIds : \A i \in 1..Len(msgs[m].reactions) :
        msgs[m].reactions[i].users # <<>>

\* The stored message reflects the operation of a finished request.
Reflected(r) ==
    IF r.kind = "addReaction"
    THEN ReactedTimes(msgs[r.msg], r.caller, r.emoji) = 1
    ELSE ReactedTimes(msgs[r.msg], r.caller, r.emoji) = 0

\* C8: when the reaction requests of two different users on the same message
\* were in flight together and both have completed, the persisted reaction
\* list reflects both operations.
C8_Claim ==
    \A s, t \in Slots :
        (/\ s # t
         /\ reqs[s].pc = "done" /\ reqs[t].pc = "done"
         /\ reqs[s].kind \in {"addReaction", "removeReaction"}
         /\ reqs[t].kind \in {"addReaction", "removeReaction"}
         /\ reqs[s].msg = reqs[t].msg
         /\ reqs[s].caller # reqs[t].caller)
            => Reflected(reqs[s]) /\ Reflected(reqs[t])

(***************************************************************************)
(* Read receipts.                                                          *)
(***************************************************************************)

\* messageSchema.statics.markMessagesAsRead: updateMany, one atomic
\* filter-and-update per document, no hook, no version change.
MarkMessagesAsRead(ms, userId, c) ==
    [m \in MsgIds |->
        IF /\ ms[m].exists
           /\ ms[m].conversationId = c
           /\ ms[m].senderId # userId
           /\ ~SeqIncludes(ms[m].readBy, userId)
           /\ ~ms[m].isDeleted
        THEN [ms[m] EXCEPT !.readBy = Append(@, userId), !.deliveryStatus = "read"]
        ELSE ms[m]]

\* GET /api/conversations/:id/messages
FetchMessages(caller, c) ==
    IF ~convs[c].exists
    THEN /\ resp' = Response("fetchMessages", 404)
         /\ UNCHANGED <<convs, msgs, reqs, started>>
    ELSE IF ~HasParticipant(convs[c], caller)
    THEN /\ resp' = Response("fetchMessages", 403)
         /\ UNCHANGED <<convs, msgs, reqs, started>>
    ELSE /\ msgs' = MarkMessagesAsRead(msgs, caller, c)
         /\ resp' = Response("fetchMessages", 200)
         /\ UNCHANGED <<convs, reqs, started>>

\* PUT /api/messages/:id/read, up to message.markAsRead
MarkReadLoad(caller, m) ==
    LoadMessage("markAsRead", caller, m, "",
                IF MessageRefusal(caller, m) # 0 THEN MessageRefusal(caller, m)
                ELSE IF msgs[m].senderId = caller THEN 400
                ELSE 0)

\* PUT /api/messages/:id/read, message.markAsRead and the response
MarkReadSave(s) ==
    /\ reqs[s].pc = "loaded"
    /\ reqs[s].kind = "markAsRead"
    /\ SaveMessage(s, MarkAsReadDoc(reqs[s].doc, reqs[s].caller))

NextRead ==
    \/ \E caller \in Callers, c \in ConvIds, text \in Texts :
          ThreadOpen /\ SendMessage(caller, c, text) /\ UNCHANGED io
    \/ \E caller \in Callers, c \in ConvIds : FetchMessages(caller, c) /\ UNCHANGED io
    \/ \E caller \in Callers, m \in MsgIds : MarkReadLoad(caller, m) /\ UNCHANGED io
    \/ \E s \in Slots : MarkReadSave(s) /\ UNCHANGED io

SpecRead == InitChat /\ [][NextRead]_vars

\* The number of read receipts of user u on a message.
ReceiptsOf(doc, u) == Cardinality({j \in 1..Len(doc.readBy) : doc.readBy[j] = u})

\* Every message holds at most one read receipt per user.
C9_OneReceiptPerUser ==
    \A m \in MsgIds, u \in Users : ReceiptsOf(msgs[m], u) <= 1

\* A mark-read by a user whose receipts are already stored changes no message.
C9_SecondMarkChangesNothing ==
    /\ \A s \in Slots :
          (MarkReadSave(s) /\ ReceiptsOf(msgs[reqs[s].msg], reqs[s].caller) >= 1)
              => msgs' = msgs
    /\ \A caller \in Callers, c \in ConvIds :
          (/\ FetchMessages(caller, c)
           /\ \A m \in MsgIds :
                 (msgs[m].exists /\ msgs[m].conversationId = c /\ msgs[m].senderId # caller)
                     => ReceiptsOf(msgs[m], caller) >= 1)
              => msgs' = msgs

\* C9: every message holds at most one read receipt per user in every
\* reachable state, and a second mark-read (single-message or bulk) by the
\* same user adds no receipt and changes no message.
C9_Claim == [] C9_OneReceiptPerUser /\ [][C9_SecondMarkChangesNothing]_vars

\* C10: whatever the interleaving of the mark-read requests and message
\* fetches of one user, once they have all completed no message holds two
\* read receipts of that user.
C10_Claim ==
    (\A s \in Slots : reqs[s].pc # "loaded")
        => \A m \in MsgIds, u \in Users : ReceiptsOf(msgs[m], u) < 2

(***************************************************************************)
(* Message lifecycle: reply, edit and delete through the routes of         *)
(* src/routes/messages.js and of src/routes/chat.js.                       *)
(***************************************************************************)

\* The text an edit request carries.
EditedText == <<"e", "d">>

\* POST /api/conversations/:id/messages with a text body and a replyTo
SendReply(caller, c, text, replyTo) ==
    IF ~convs[c].exists
    THEN /\ resp' = Response("sendReply", 404)
         /\ UNCHANGED <<convs, msgs, reqs, started>>
    ELSE IF ~HasParticipant(convs[c], caller)
    THEN /\ resp' = Response("sendReply", 403)
         /\ UNCHANGED <<convs, msgs, reqs, started>>
    ELSE IF ~msgs[replyTo].exists \/ msgs[replyTo].conversationId # c
    THEN /\ resp' = Response("sendReply", 400)
         /\ UNCHANGED <<convs, msgs, reqs, started>>
    ELSE /\ FreeMsgIds # {}
         /\ LET message == MessagePreSave(
                               [NewMessage(text, caller, c, Now) EXCEPT !.replyTo = replyTo])
                hooked == AfterMessageHook(convs, message)
                conversation == UpdateLastMessageDoc(convs[c], text, message.createdAt)
            IN /\ msgs' = [msgs EXCEPT ![NewMsgId] = message]
               /\ IF ConvSaveOk(conversation)
                  THEN /\ convs' = [hooked EXCEPT ![c] = ConvPreSave(conversation)]
                       /\ resp' = Response("sendReply", 201)
                  ELSE /\ convs' = hooked
                       /\ resp' = Response("sendReply", 500)
         /\ UNCHANGED <<reqs, started>>

\* The early return of PUT /api/messages/:id, 0 when the edit goes on.
EditRefusal(caller, m) ==
    IF ~msgs[m].exists THEN 404
    ELSE IF msgs[m].senderId # caller THEN 403
    ELSE IF msgs[m].isDeleted THEN 400
    ELSE 0

\* PUT /api/messages/:id, up to message.save()
EditLoad(caller, m) ==
    LoadMessage("editMessage", caller, m, "", EditRefusal(caller, m))

\* PUT /api/messages/:id, message.text = req.body.text, save and response
EditSave(s) ==
    /\ reqs[s].pc = "loaded"
    /\ reqs[s].kind = "editMessage"
    /\ SaveMessage(s, [reqs[s].doc EXCEPT !.text = EditedText])

\* The early return of PUT /api/chat/messages/:id, 0 when the edit goes on.
ChatEditRefusal(caller, m) ==
    IF ~msgs[m].exists THEN 404
    ELSE IF msgs[m].senderId # caller THEN 403
    ELSE 0

\* PUT /api/chat/messages/:id, up to message.save()
ChatEditLoad(caller, m) ==
    LoadMessage("chatEditMessage", caller, m, "", ChatEditRefusal(caller, m))

\* PUT /api/chat/messages/:id, the assignments, save and response
ChatEditSave(s) ==
    /\ reqs[s].pc = "loaded"
    /\ reqs[s].kind = "chatEditMessage"
    /\ SaveMessage(s, [reqs[s].doc EXCEPT !.text = EditedText])

\* The early return of DELETE /api/messages/:id, 0 when the delete goes on.
DeleteRefusal(caller, m) ==
    IF ~msgs[m].exists THEN 404
    ELSE IF ~(msgs[m].senderId = caller \/ RoleOf(caller) = "admin") THEN 403
    ELSE 0

\* DELETE /api/messages/:id, up to message.softDelete
DeleteLoad(caller, m) ==
    LoadMessage("deleteMessage", caller, m, "", DeleteRefusal(caller, m))

\* DELETE /api/messages/:id, message.softDelete and the response
DeleteSave(s) ==
    /\ reqs[s].pc = "loaded"
    /\ reqs[s].kind = "deleteMessage"
    /\ SaveMessage(s, SoftDeleteDoc(reqs[s].doc, reqs[s].caller))

\* DELETE /api/chat/messages/:id: Message.findByIdAndDelete
ChatDeleteMessage(caller, m) ==
    IF ~msgs[m].exists
    THEN /\ resp' = Response("chatDeleteMessage", 404)
         /\ UNCHANGED <<convs, msgs, reqs, started>>
    ELSE IF msgs[m].senderId # caller
    THEN /\ resp' = Response("chatDeleteMessage", 403)
         /\ UNCHANGED <<convs, msgs, reqs, started>>
    ELSE /\ msgs' = [msgs EXCEPT ![m] = NoMsg]
         /\ resp' = Response("chatDeleteMessage", 200)
         /\ UNCHANGED <<convs, reqs, started>>

\* The clock has not passed the latest creation time of the model.
SendOpen == Now <= MaxSent

\* Fewer than MaxEdits edit / delete requests were started.
EditOpen == started < MaxEdits

NextMsg ==
    \/ \E caller \in MsgCallers, c \in ConvIds, text \in Texts :
          ThreadOpen /\ SendMessage(caller, c, text) /\ UNCHANGED io
    \/ \E caller \in MsgCallers, c \in ConvIds : FetchMessages(caller, c) /\ UNCHANGED io
    \/ \E caller \in MsgCallers, m \in MsgIds : EditOpen /\ EditLoad(caller, m) /\ UNCHANGED io
    \/ \E s \in Slots : EditSave(s) /\ UNCHANGED io
    \/ \E caller \in MsgCallers, m \in MsgIds : EditOpen /\ ChatEditLoad(caller, m) /\ UNCHANGED io
    \/ \E s \in Slots : ChatEditSave(s) /\ UNCHANGED io
    \/ \E caller \in MsgCallers, m \in MsgIds : EditOpen /\ DeleteLoad(caller, m) /\ UNCHANGED io
    \/ \E s \in Slots : DeleteSave(s) /\ UNCHANGED io
    \/ \E caller \in MsgCallers, m \in MsgIds : ChatDeleteMessage(caller, m) /\ UNCHANGED io

SpecMsg == InitChat /\ [][NextMsg]_vars

NextReply ==
    \/ \E caller \in MsgCallers, c \in ConvIds, text \in Texts :
          SendOpen /\ SendMessage(caller, c, text) /\ UNCHANGED io
    \/ \E caller \in MsgCallers, c \in ConvIds, text \in Texts, replyTo \in MsgIds :
          SendOpen /\ SendReply(caller, c, text, replyTo) /\ UNCHANGED io
    \/ \E caller \in MsgCallers, c \in ConvIds : FetchMessages(caller, c) /\ UNCHANGED io
    \/ \E caller \in MsgCallers, m \in MsgIds : ChatDeleteMessage(caller, m) /\ UNCHANGED io

SpecReply == InitChat /\ [][NextReply]_vars

(***************************************************************************)
(* Claims on the message lifecycle.                                        *)
(***************************************************************************)

\* The messages of conversation c in a message collection.
MessagesOf(ms, c) == {m \in MsgIds : ms[m].exists /\ ms[m].conversationId = c}

\* unread-count(c, u) as the claim defines it: the messages of c that u did
\* not send and that hold no receipt of u.
UnreadOf(ms, c, u) ==
    {m \in MessagesOf(ms, c) : ms[m].senderId # u /\ ~SeqIncludes(ms[m].readBy, u)}

\* C11: after a mark-read of conversation c by user u has completed, every
\* message of c that u did not send, soft-deleted or not, holds a receipt of
\* u and has delivery status read, and the unread count of u in c is 0.
C11_Claim ==
    [][\A caller \in MsgCallers, c \in ConvIds :
          (FetchMessages(caller, c) /\ resp'.status = 200)
              => /\ UnreadOf(msgs', c, caller) = {}
                 /\ \A m \in MessagesOf(msgs', c) :
                       msgs'[m].senderId # caller => msgs'[m].deliveryStatus = "read"]_vars

\* The stored message m is the tombstone of the message it was before.
TombstoneOf(before, after, deletedBy) ==
    /\ after.exists
    /\ after.conversationId = before.conversationId
    /\ after.senderId = before.senderId
    /\ after.createdAt = before.createdAt
    /\ after.text = Tombstone
    /\ after.attachments = <<>>
    /\ after.isDeleted
    /\ after.deletedBy = deletedBy

\* C12: a message delete that succeeds, through either delete route, leaves
\* a tombstone: the record stays, with the same conversation, sender and
\* createdAt, the tombstone text, no attachment and the deletion fields set.
C12_Claim ==
    [][/\ \A s \in Slots :
             (DeleteSave(s) /\ resp'.status = 200)
                 => TombstoneOf(msgs[reqs[s].msg], msgs'[reqs[s].msg], reqs[s].caller)
       /\ \A caller \in MsgCallers, m \in MsgIds :
             (ChatDeleteMessage(caller, m) /\ resp'.status = 200)
                 => TombstoneOf(msgs[m], msgs'[m], caller)]_vars

\* The newest of a set of messages.
Newest(ms, S) == CHOOSE m \in S : \A n \in S : ms[n].createdAt <= ms[m].createdAt

\* The cache of conversation c reflects the messages of c: it shows the
\* newest message as stored, or the newest message that is not deleted, or
\* nothing when no message is left undeleted.
CacheReflects(cs, ms, c) ==
    LET all == MessagesOf(ms, c)
        live == {m \in all : ~ms[m].isDeleted}
    IN \/ /\ all # {}
          /\ cs[c].lastMessage = Preview(ms[Newest(ms, all)].text)
       \/ /\ live # {}
          /\ cs[c].lastMessage = Preview(ms[Newest(ms, live)].text)
       \/ /\ live = {}
          /\ cs[c].lastMessage = NoText

\* C13: appending a non-system message to a conversation and soft-deleting
\* one both refresh the conversation's cached last message, so that after
\* the operation the cache reflects the conversation's messages.
C13_Claim ==
    [][/\ \A caller \in MsgCallers, c \in ConvIds, text \in Texts :
             (SendMessage(caller, c, text) /\ resp'.status = 201)
                 => CacheReflects(convs', msgs', c)
       /\ \A s \in Slots :
             (DeleteSave(s) /\ resp'.status = 200)
                 => CacheReflects(convs', msgs', reqs[s].doc.conversationId)]_vars

\* The tenant of a conversation: the company of the user who created it
\* (the conversation schema stores no company).
TenantOfConv(doc) == CompanyOf(doc.createdBy)

\* The request was turned down with this status and nothing was stored.
RefusedWith(status) ==
    /\ resp'.status = status
    /\ reqs' = reqs
    /\ msgs' = msgs
    /\ convs' = convs

\* C16: a conversation or message operation by a caller of another tenant
\* than the target's answers NotFound (404), as for a missing record, and
\* changes nothing; administrators included.
C16_Claim ==
    [][\A caller \in MsgCallers :
          /\ \A c \in ConvIds :
                (/\ convs[c].exists
                 /\ TenantOfConv(convs[c]) # CompanyOf(caller)
                 /\ \/ \E text \in Texts : SendMessage(caller, c, text)
                    \/ FetchMessages(caller, c))
                    => RefusedWith(404)
          /\ \A m \in MsgIds :
                (/\ msgs[m].exists
                 /\ convs[msgs[m].conversationId].exists
                 /\ TenantOfConv(convs[msgs[m].conversationId]) # CompanyOf(caller)
                 /\ \/ EditLoad(caller, m)
                    \/ ChatEditLoad(caller, m)
                    \/ DeleteLoad(caller, m)
                    \/ ChatDeleteMessage(caller, m))
                    => RefusedWith(404)]_vars

\* C19: an edit of a soft-deleted message by its sender is refused with
\* InvalidState (400) through both edit routes, and the text of a tombstone
\* never changes.
C19_Claim ==
    [][/\ \A caller \in MsgCallers, m \in MsgIds :
             (/\ msgs[m].exists /\ msgs[m].isDeleted /\ msgs[m].senderId = caller
              /\ (EditLoad(caller, m) \/ ChatEditLoad(caller, m)))
                 => RefusedWith(400)
       /\ \A m \in MsgIds :
             (msgs[m].exists /\ msgs[m].isDeleted /\ msgs'[m].exists /\ msgs'[m].isDeleted)
                 => msgs'[m].text = msgs[m].text]_vars

\* The caller may delete the message: its sender or an administrator.
MayDelete(caller, m) == msgs[m].senderId = caller \/ RoleOf(caller) = "admin"

\* The caller belongs to the tenant of the stored message m.
SameTenant(caller, m) ==
    /\ msgs[m].exists
    /\ convs[msgs[m].conversationId].exists
    /\ TenantOfConv(convs[msgs[m].conversationId]) = CompanyOf(caller)

\* C20: through both delete routes, a delete request on a stored message of
\* the requester's tenant goes through exactly when the requester is the
\* sender or an administrator; any other requester is refused with
\* Permission (403) and the message is unchanged.
C20_Claim ==
    [][\A caller \in MsgCallers, m \in MsgIds :
          /\ (SameTenant(caller, m) /\ DeleteLoad(caller, m))
                => IF MayDelete(caller, m)
                   THEN \E s \in Slots : reqs'[s].pc = "loaded" /\ reqs[s].pc # "loaded"
                   ELSE RefusedWith(403)
          /\ (SameTenant(caller, m) /\ ChatDeleteMessage(caller, m))
                => IF MayDelete(caller, m)
                   THEN resp'.status = 200
                   ELSE RefusedWith(403)]_vars

\* Every reply-target is a stored message of the same conversation.
C18_ReplyInConversation ==
    \A m \in MsgIds :
        (msgs[m].exists /\ msgs[m].replyTo # 0)
            => /\ msgs[msgs[m].replyTo].exists
               /\ msgs[msgs[m].replyTo].conversationId = msgs[m].conversationId

\* An append whose replyTo is no message of the conversation is refused
\* with Validation (400) and stores nothing.
C18_BadReplyRefused ==
    \A caller \in MsgCallers, c \in ConvIds, text \in Texts, replyTo \in MsgIds :
        (/\ SendReply(caller, c, text, replyTo)
         /\ convs[c].exists /\ HasParticipant(convs[c], caller)
         /\ ~(msgs[replyTo].exists /\ msgs[replyTo].conversationId = c))
            => RefusedWith(400)

\* C18: in every reachable state every reply-target is a message of the same
\* conversation, and an append with a replyTo that is not one is refused and
\* stores nothing.
C18_Claim == [] C18_ReplyInConversation /\ [][C18_BadReplyRefused]_vars

(***************************************************************************)
(* Appends and channel deletion as interleaved steps: a message append is  *)
(* find conversation / Message.create / conversation.save(), the deletion  *)
(* of a channel is find / findByIdAndDelete / Message.deleteMany.          *)
(***************************************************************************)

\* The store in which the append specification starts: the group that
\* POST /api/conversations creates when A names B and C.
GroupStore ==
    [c \in ConvIds |->
        IF c = 1
        THEN ConvPreSave(NewConversation("general", POfSet({"A", "B", "C"}), "A", TRUE))
        ELSE NoConv]

InitGroup ==
    /\ convs = GroupStore
    /\ msgs = [m \in MsgIds |-> NoMsg]
    /\ reqs = [s \in Slots |-> IdleReq]
    /\ started = 0
    /\ resp = NoResponse
    /\ io = NoSockets

\* Users who send requests in the append specification.
AppendCallers == {"A", "B"}

\* The locals of an append or channel-deletion handler between two awaits.
ConvRequest(pc, kind, caller, c, doc, text, m, at, status) ==
    [pc |-> pc, kind |-> kind, caller |-> caller, conv |-> c, doc |-> doc,
     text |-> text, msg |-> m, at |-> at, status |-> status]

\* A request that works on a conversation, up to the end of its checks.
LoadConversation(kind, caller, c, text, refusal) ==
    /\ OpenSlots # {}
    /\ started < MaxRequests
    /\ started' = started + 1
    /\ IF refusal # 0
       THEN /\ resp' = Response(kind, refusal)
            /\ UNCHANGED reqs
       ELSE /\ reqs' = [s \in Slots |->
                  IF s = OpenSlot
                  THEN ConvRequest("checked", kind, caller, c, convs[c], text, 0, 0, 0)
                  ELSE IF reqs[s].pc = "done" THEN IdleReq ELSE reqs[s]]
            /\ UNCHANGED resp
    /\ UNCHANGED <<convs, msgs>>

\* The request in slot s has answered.
Answer(s, status) ==
    /\ reqs' = [reqs EXCEPT ![s] =
          ConvRequest("done", reqs[s].kind, reqs[s].caller, reqs[s].conv, NoConv,
                      NoText, reqs[s].msg, reqs[s].at, status)]
    /\ resp' = Response(reqs[s].kind, status)

\* POST /api/conversations/:id/messages, up to Message.create
SendLoad(caller, c, text) ==
    LoadConversation("sendMessage", caller, c, text,
                     IF ~convs[c].exists THEN 404
                     ELSE IF ~HasParticipant(convs[c], caller) THEN 403
                     ELSE 0)

\* POST /api/chat/messages, up to Message.create:
\* Conversation.findOne({_id, participants: req.user._id, isActive: true})
ChatSendLoad(caller, c, text) ==
    LoadConversation("chatSendMessage", caller, c, text,
                     IF ~(/\ convs[c].exists
                          /\ HasParticipant(convs[c], caller)
                          /\ convs[c].isActive)
                     THEN 404
                     ELSE 0)

\* Message.create of an append: the document is inserted and its
\* pre('save') hook refreshes the conversation's cache.
CreateMessage(s) ==
    LET r == reqs[s]
        message == MessagePreSave(NewMessage(r.text, r.caller, r.conv, Now))
    IN /\ FreeMsgIds # {}
       /\ msgs' = [msgs EXCEPT ![NewMsgId] = message]
       /\ convs' = AfterMessageHook(convs, message)
       /\ reqs' = [reqs EXCEPT ![s].pc = "created", ![s].msg = NewMsgId,
                                ![s].at = message.createdAt]
       /\ UNCHANGED <<started, resp>>

\* POST /api/conversations/:id/messages, Message.create
SendCreate(s) ==
    /\ reqs[s].pc = "checked"
    /\ reqs[s].kind = "sendMessage"
    /\ CreateMessage(s)

\* POST /api/chat/messages, Message.create
ChatSendCreate(s) ==
    /\ reqs[s].pc = "checked"
    /\ reqs[s].kind = "chatSendMessage"
    /\ CreateMessage(s)

\* The stored conversation after save() of a loaded conversation: the delta
\* holds the paths that differ between the loaded document old and the
\* document new that the handler and the pre('save') hook made of it.
SavedConversation(old, new, cur) ==
    [cur EXCEPT
       !.lastMessage = IF new.lastMessage # old.lastMessage THEN new.lastMessage ELSE @,
       !.lastMessageAt = IF new.lastMessageAt # old.lastMessageAt
                         THEN new.lastMessageAt ELSE @,
       !.isGroup = IF new.isGroup # old.isGroup THEN new.isGroup ELSE @,
       !.participants = IF new.participants # old.participants
                        THEN PPush(@, old.createdBy) ELSE @]

\* conversation.save() at the end of an append, and the response.  The save
\* fails on the hook's error, and when the conversation was deleted
\* meanwhile.
FinishAppend(s, new) ==
    LET r == reqs[s]
        old == r.doc
        cur == convs[r.conv]
    IN /\ IF ConvSaveOk(new) /\ cur.exists
          THEN /\ convs' = [convs EXCEPT ![r.conv] = SavedConversation(old, ConvPreSave(new), cur)]
               /\ Answer(s, 201)
          ELSE /\ convs' = convs
               /\ Answer(s, 500)
       /\ UNCHANGED <<msgs, started>>

\* POST /api/conversations/:id/messages, conversation.updateLastMessage and
\* the response
SendFinish(s) ==
    /\ reqs[s].pc = "created"
    /\ reqs[s].kind = "sendMessage"
    /\ FinishAppend(s, UpdateLastMessageDoc(reqs[s].doc, reqs[s].text, reqs[s].at))

\* POST /api/chat/messages, conversation.lastMessageAt = new Date(), save
\* and the response
ChatSendFinish(s) ==
    /\ reqs[s].pc = "created"
    /\ reqs[s].kind = "chatSendMessage"
    /\ FinishAppend(s, [reqs[s].doc EXCEPT !.lastMessageAt = reqs[s].at])

\* DELETE /api/chat/channels/:id, up to findByIdAndDelete:
\* Conversation.findOne({_id, companyId, isGroup: true}) and the permission
\* check
ChannelDeleteLoad(caller, c) ==
    \E strictQuery \in BOOLEAN :
        LoadConversation("deleteChannel", caller, c, NoText,
                         IF ~(/\ convs[c].exists
                              /\ CompanyFilterPasses(strictQuery)
                              /\ convs[c].isGroup)
                         THEN 404
                         ELSE IF RoleOf(caller) # "admin" /\ convs[c].createdBy # caller
                         THEN 403
                         ELSE 0)

\* DELETE /api/chat/channels/:id, Conversation.findByIdAndDelete
ChannelDelete(s) ==
    /\ reqs[s].pc = "checked"
    /\ reqs[s].kind = "deleteChannel"
    /\ convs' = [convs EXCEPT ![reqs[s].conv] = NoConv]
    /\ reqs' = [reqs EXCEPT ![s].pc = "deleted"]
    /\ UNCHANGED <<msgs, started, resp>>

\* DELETE /api/chat/channels/:id, Message.deleteMany and the response
ChannelPurge(s) ==
    /\ reqs[s].pc = "deleted"
    /\ reqs[s].kind = "deleteChannel"
    /\ msgs' = [m \in MsgIds |->
                   IF msgs[m].exists /\ msgs[m].conversationId = reqs[s].conv
                   THEN NoMsg ELSE msgs[m]]
    /\ Answer(s, 200)
    /\ UNCHANGED <<convs, started>>

NextAppend ==
    \/ \E caller \in AppendCallers, c \in ConvIds, text \in Texts : SendLoad(caller, c, text) /\ UNCHANGED io
    \/ \E s \in Slots : SendCreate(s) /\ UNCHANGED io
    \/ \E s \in Slots : SendFinish(s) /\ UNCHANGED io
    \/ \E caller \in AppendCallers, c \in ConvIds, text \in Texts : ChatSendLoad(caller, c, text) /\ UNCHANGED io
    \/ \E s \in Slots : ChatSendCreate(s) /\ UNCHANGED io
    \/ \E s \in Slots : ChatSendFinish(s) /\ UNCHANGED io
    \/ \E caller \in AppendCallers, c \in ConvIds, userId \in AppendCallers :
          RemoveParticipant(caller, c, userId) /\ UNCHANGED io
    \/ \E caller \in AppendCallers, c \in ConvIds : ChannelDeleteLoad(caller, c) /\ UNCHANGED io
    \/ \E s \in Slots : ChannelDelete(s) /\ UNCHANGED io
    \/ \E s \in Slots : ChannelPurge(s) /\ UNCHANGED io

SpecAppend == InitGroup /\ [][NextAppend]_vars

\* No request is between two of its steps.
NothingInFlight == \A s \in Slots : reqs[s].pc \in {"idle", "done"}

\* C15: once the hard-delete of a channel has completed, and the appends
\* that were in flight during it have completed too, the conversation is
\* gone and no message of it is stored.
C15_Claim ==
    \A s \in Slots :
        (/\ reqs[s].pc = "done"
         /\ reqs[s].kind = "deleteChannel"
         /\ reqs[s].status = 200
         /\ NothingInFlight)
            => /\ ~convs[reqs[s].conv].exists
               /\ MessagesOf(msgs, reqs[s].conv) = {}

\* The step persists a message only if its sender is a participant of the
\* conversation at that moment.
C17_SenderIsParticipant ==
    \A s \in Slots :
        ((SendCreate(s) \/ ChatSendCreate(s)) /\ msgs' # msgs)
            => /\ convs[reqs[s].conv].exists
               /\ HasParticipant(convs[reqs[s].conv], reqs[s].caller)

\* An append by a user who is not a participant is refused with Permission
\* (403) and stores nothing.
C17_NonParticipantRefused ==
    \A caller \in AppendCallers, c \in ConvIds, text \in Texts :
        (/\ convs[c].exists
         /\ ~HasParticipant(convs[c], caller)
         /\ (SendLoad(caller, c, text) \/ ChatSendLoad(caller, c, text)))
            => RefusedWith(403)

\* C17: a message is persisted only while its sender is a participant of
\* its conversation, also when the sender is removed while the append is in
\* flight, and an append by a non-participant is refused with Permission.
C17_Claim == [][C17_SenderIsParticipant /\ C17_NonParticipantRefused]_vars

(***************************************************************************)
(* The preview of long messages.                                           *)
(***************************************************************************)

\* The length of the longest text sent in the preview specification.
MaxTextLen == 202

\* Texts whose characters differ from one position to the next: two short
\* ones, and one of every length around the limit of the preview.
CharAt(i) == <<"a", "b", "c">>[(i % 3) + 1]
TextOfLen(n) == [i \in 1..n |-> CharAt(i)]
LongTexts == {TextOfLen(n) : n \in {1, 5} \cup ((MaxTextLen - 5)..MaxTextLen)}

NextPreview ==
    \/ \E caller \in AppendCallers, c \in ConvIds, text \in LongTexts :
          SendOpen /\ SendMessage(caller, c, text) /\ UNCHANGED io
    \/ \E caller \in AppendCallers, m \in MsgIds : ChatDeleteMessage(caller, m) /\ UNCHANGED io

SpecPreview == InitChat /\ [][NextPreview]_vars

\* The preview the claim gives for a text.
ClaimedPreview(text) ==
    IF Len(text) <= 200 THEN text
    ELSE [i \in 1..200 |-> IF i <= 197 THEN text[i] ELSE "."]

\* Every cached preview has at most 200 characters.
C14_PreviewBounded ==
    \A c \in ConvIds : Len(convs[c].lastMessage) <= 200

\* An append sets the cached preview to the text, or to its first 197
\* characters followed by "..." when the text is longer than 200.
C14_AppendSetsPreview ==
    \A caller \in AppendCallers, c \in ConvIds, text \in LongTexts :
        (SendMessage(caller, c, text) /\ resp'.status = 201)
            => convs'[c].lastMessage = ClaimedPreview(text)

\* C14: the cached lastMessage preview never exceeds 200 characters: an
\* append of a text of at most 200 characters caches the text unchanged, an
\* append of a longer text caches its first 197 characters followed by
\* "...".
C14_Claim == [] C14_PreviewBounded /\ [][C14_AppendSetsPreview]_vars

\* A message longer than 200 characters is stored and the cache holds its
\* 200-character preview.
C14_Witness ==
    \E m \in MsgIds :
        /\ msgs[m].exists
        /\ Len(msgs[m].text) > 200
        /\ Len(convs[msgs[m].conversationId].lastMessage) = 200
        /\ convs[msgs[m].conversationId].lastMessage[200] = "."
        /\ convs[msgs[m].conversationId].lastMessage[197] = msgs[m].text[197]

(***************************************************************************)
(* Claims on the edit flag.                                                *)
(***************************************************************************)

\* Message m carries isEdited after the step and did not before it.
BecomesEdited(m) ==
    /\ msgs'[m].exists
    /\ msgs'[m].isEdited
    /\ ~(msgs[m].exists /\ msgs[m].isEdited)

\* C21: isEdited is false on every newly created message and becomes true
\* only by a content edit of a message that is already stored: a step in
\* which a message becomes edited is the save of an edit request on that
\* stored message.  Appending and soft-deleting never set isEdited.
C21_Claim ==
    [][\A m \in MsgIds :
          BecomesEdited(m)
              => /\ msgs[m].exists
                 /\ \E s \in Slots :
                       /\ EditSave(s) \/ ChatEditSave(s)
                       /\ reqs[s].msg = m]_vars

(***************************************************************************)
(* Claims on conversation deletion and on participant removal.             *)
(***************************************************************************)

\* The requesters the conversation soft-delete is open to.
MayDeleteConversation(caller, c) ==
    \/ RoleOf(caller) = "admin"
    \/ convs[c].createdBy = caller
    \/ ~convs[c].isGroup /\ HasParticipant(convs[c], caller)

\* C22: soft-deleting a conversation succeeds only for an administrator,
\* the conversation's creator, or a participant of a direct conversation;
\* any other requester is refused and the conversation stays as it is.  A
\* successful soft-delete sets isActive to false and changes no message.
C22_Claim ==
    [][\A caller \in Callers, c \in ConvIds :
          (DeleteConversation(caller, c) /\ convs[c].exists)
              => /\ resp'.status = 200
                     => /\ MayDeleteConversation(caller, c)
                        /\ ~convs'[c].isActive
                        /\ msgs' = msgs
                 /\ ~MayDeleteConversation(caller, c)
                     => /\ resp'.status = 403
                        /\ convs' = convs]_vars

(***************************************************************************)
(* SpecMember: the membership routes on the group of A, B and C, one       *)
(* request at a time.  A and B send the requests; the user a request names *)
(* is any user of the directory.                                           *)
(***************************************************************************)
NextMember ==
    \/ \E caller \in AppendCallers, c \in ConvIds, u \in Users : AddParticipant(caller, c, u) /\ UNCHANGED io
    \/ \E caller \in AppendCallers, c \in ConvIds, u \in Users :
          RemoveParticipant(caller, c, u) /\ UNCHANGED io
    \/ \E caller \in AppendCallers, c \in ConvIds, body \in UpdateBodies :
          UpdateConversation(caller, c, body) /\ UNCHANGED io
    \/ \E caller \in AppendCallers, c \in ConvIds : DeleteConversation(caller, c) /\ UNCHANGED io

SpecMember == InitGroup /\ [][NextMember]_vars

\* The callers remove-participant is open to.
MayRemove(caller, userId) == caller = userId \/ RoleOf(caller) = "admin"

ReadResponse(op, status, cs) == [op |-> op, status |-> status, convs |-> cs]

\* Conversation.findUserConversations: {participants: userId, isActive: true}
FindUserConversations(userId) ==
    {c \in ConvIds : /\ convs[c].exists
                     /\ HasParticipant(convs[c], userId)
                     /\ convs[c].isActive}

\* GET /api/users/:id/conversations
ListUserConversations(caller, userId) ==
    /\ IF RoleOf(caller) = "user" /\ caller # userId
       THEN resp' = Response("listUserConversations", 403)
       ELSE resp' = ReadResponse("listUserConversations", 200, FindUserConversations(userId))
    /\ UNCHANGED <<convs, msgs, reqs, started>>

\* GET /api/messages/:id
GetMessage(caller, m) ==
    /\ IF MessageRefusal(caller, m) # 0
       THEN resp' = Response("getMessage", MessageRefusal(caller, m))
       ELSE resp' = ReadResponse("getMessage", 200, {msgs[m].conversationId})
    /\ UNCHANGED <<convs, msgs, reqs, started>>

\* GET /api/messages/search and GET /api/messages/stats: the router
\* declares GET /:id with validateObjectId('id') before them, so express
\* hands both paths to that route, whose validation answers 400.
ShadowedGet(op) ==
    /\ resp' = Response(op, 400)
    /\ UNCHANGED <<convs, msgs, reqs, started>>

NextAccess ==
    \/ \E caller \in MsgCallers, c \in ConvIds, text \in Texts :
          ThreadOpen /\ SendMessage(caller, c, text) /\ UNCHANGED io
    \/ \E caller \in MsgCallers, c \in ConvIds : FetchMessages(caller, c) /\ UNCHANGED io
    \/ \E caller \in MsgCallers, u \in Users : ListUserConversations(caller, u) /\ UNCHANGED io
    \/ \E caller \in MsgCallers, m \in MsgIds : GetMessage(caller, m) /\ UNCHANGED io
    \/ \E op \in {"searchMessages", "messageStats"} : ShadowedGet(op) /\ UNCHANGED io
    \/ \E caller \in MsgCallers, c \in ConvIds : DeleteConversation(caller, c) /\ UNCHANGED io
    \/ \E caller \in MsgCallers, m \in MsgIds : ChatDeleteMessage(caller, m) /\ UNCHANGED io

SpecAccess == InitChat /\ [][NextAccess]_vars

\* C24: no read operation returns a conversation, or messages of one, to a
\* user who is not a participant of it, administrators included: the list
\* of a user's conversations, the fetch of a page, the single message, the
\* search and the statistics answer with content only of conversations the
\* caller is in.
C24_Claim ==
    [][\A caller \in MsgCallers :
          /\ \A u \in Users :
                (ListUserConversations(caller, u) /\ resp'.status = 200)
                    => \A c \in resp'.convs : HasParticipant(convs[c], caller)
          /\ \A m \in MsgIds :
                (GetMessage(caller, m) /\ resp'.status = 200)
                    => \A c \in resp'.convs : HasParticipant(convs[c], caller)
          /\ \A c \in ConvIds :
                (FetchMessages(caller, c) /\ resp'.status = 200)
                    => HasParticipant(convs[c], caller)]_vars

(***************************************************************************)
(* SpecRealtime: the socket.io server of src/routes/users.js and the emits *)
(* of the message routes.  io.to(room).emit(...) hands the event to the    *)
(* connections that are in the room at that moment; a connection that      *)
(* disconnects leaves all its rooms.                                       *)
(***************************************************************************)

\* An event as a client receives it: the event name, the room it was
\* emitted to (the conversation id of "conversation-<id>") and the payload.
Event(kind, topic, payload) == [kind |-> kind, topic |-> topic, payload |-> payload]

\* io.to(`conversation-${topic}`).emit(...) delivering to every connection,
\* whatever rooms it is in.
EmitToAll(topic, ev) ==
    io' = [k \in Conns |->
              IF io[k].connected
              THEN [io[k] EXCEPT !.inbox = Append(@, ev)]
              ELSE io[k]]

\* io.to(`conversation-${topic}`).emit(...)
Emit(topic, ev) ==
    io' = [k \in Conns |->
              IF topic \in io[k].rooms
              THEN [io[k] EXCEPT !.inbox = Append(@, ev)]
              ELSE io[k]]

\* io.on('connection'): a client connects; it is in no conversation room.
Connect(k) ==
    /\ ~io[k].connected
    /\ io' = [io EXCEPT ![k] = [connected |-> TRUE, rooms |-> {}, inbox |-> <<>>]]
    /\ UNCHANGED <<convs, msgs, reqs, started, resp>>

\* socket.on('join-conversation'): socket.join, with no check of the id
JoinConversation(k, conversationId) ==
    /\ io[k].connected
    /\ io' = [io EXCEPT ![k].rooms = @ \cup {conversationId}]
    /\ UNCHANGED <<convs, msgs, reqs, started, resp>>

\* socket.on('leave-conversation'): socket.leave
LeaveConversation(k, conversationId) ==
    /\ io[k].connected
    /\ io' = [io EXCEPT ![k].rooms = @ \ {conversationId}]
    /\ UNCHANGED <<convs, msgs, reqs, started, resp>>

\* socket.on('disconnect'): the connection is gone from every room
Disconnect(k) ==
    /\ io[k].connected
    /\ io' = [io EXCEPT ![k].connected = FALSE, ![k].rooms = {}]
    /\ UNCHANGED <<convs, msgs, reqs, started, resp>>

\* POST /api/conversations/:id/messages with its emit of newMessage
SendAndEmit(caller, c, text) ==
    /\ SendMessage(caller, c, text)
    /\ IF resp'.status = 201
       THEN Emit(c, Event("newMessage", c, [message |-> msgs'[NewMsgId]]))
       ELSE UNCHANGED io

\* DELETE /api/messages/:id, softDelete, with its emit of messageDeleted
DeleteSaveAndEmit(s) ==
    /\ DeleteSave(s)
    /\ IF resp'.status = 200
       THEN Emit(reqs[s].doc.conversationId,
                 Event("messageDeleted", reqs[s].doc.conversationId,
                       [messageId |-> reqs[s].msg]))
       ELSE UNCHANGED io

\* No connection holds MaxInbox events yet.
InboxOpen == \A k \in Conns : Len(io[k].inbox) < MaxInbox

\* The user who sends the requests of the realtime specification.
RealtimeCallers == {"A"}

NextRealtime ==
    \/ \E k \in Conns : Connect(k)
    \/ \E k \in Conns, c \in ConvIds : JoinConversation(k, c)
    \/ \E k \in Conns, c \in ConvIds : LeaveConversation(k, c)
    \/ \E k \in Conns : Disconnect(k)
    \/ \E caller \in RealtimeCallers, c \in ConvIds, text \in Texts :
          ThreadOpen /\ InboxOpen /\ SendAndEmit(caller, c, text)
    \/ \E caller \in RealtimeCallers, m \in MsgIds :
          EditOpen /\ InboxOpen /\ DeleteLoad(caller, m) /\ UNCHANGED io
    \/ \E s \in Slots : DeleteSaveAndEmit(s)
    \/ \E caller \in RealtimeCallers, m \in MsgIds :
          InboxOpen /\ ChatDeleteMessage(caller, m) /\ UNCHANGED io

SpecRealtime == InitChat /\ [][NextRealtime]_vars

\* The events connection k receives in the step, when it stays connected.
Received(k) ==
    IF Len(io'[k].inbox) > Len(io[k].inbox)
    THEN {io'[k].inbox[i] : i \in (Len(io[k].inbox) + 1)..Len(io'[k].inbox)}
    ELSE {}

\* What a connection has received is only ever extended, except that a
\* new connection starts with nothing.
InboxKept(k) ==
    \/ ~io[k].connected /\ io'[k].connected
    \/ /\ Len(io'[k].inbox) >= Len(io[k].inbox)
       /\ SubSeq(io'[k].inbox, 1, Len(io[k].inbox)) = io[k].inbox

\* C25: a connection receives an event published for conversation c if and
\* only if it has joined c and has not left c or disconnected since.  In
\* every step, a connection receives at most one event, of a conversation
\* whose room it is in; and an event that some connection receives is
\* received by every connection that is in the room of its conversation.
\* So a connection that did not join c, or joined only other
\* conversations, gets no event of c.
C25_Claim ==
    [][\A k \in Conns :
          /\ InboxKept(k)
          /\ io[k].connected /\ io'[k].connected => Cardinality(Received(k)) <= 1
          /\ \A ev \in Received(k) :
                /\ io[k].connected
                /\ ev.topic \in io[k].rooms
                /\ \A j \in Conns : ev.topic \in io[j].rooms => ev \in Received(j)]_vars

\* A connection got an event of conversation 1 while another connection,
\* in the room of conversation 2 only, got none.
C25_Witness ==
    \E k, j \in Conns :
        /\ io[k].inbox # <<>>
        /\ io[k].inbox[1].topic = 1
        /\ 1 \in io[k].rooms
        /\ io[j].connected
        /\ io[j].rooms = {2}
        /\ io[j].inbox = <<>>

\* Connection k gets exactly the event ev in the step.
Gets(k, ev) == io'[k].inbox = Append(io[k].inbox, ev)

\* C26: every successful message operation publishes exactly one matching
\* event on the topic of its conversation, on every route that performs it:
\* a connection in the room of the conversation gets newMessage after an
\* append and messageDeleted, carrying only the message id, after a delete.
C26_Claim ==
    [][\A k \in Conns :
          /\ \A caller \in RealtimeCallers, c \in ConvIds, text \in Texts :
                (SendAndEmit(caller, c, text) /\ resp'.status = 201 /\ c \in io[k].rooms)
                    => \E m \in MsgIds :
                          /\ ~msgs[m].exists
                          /\ Gets(k, Event("newMessage", c, [message |-> msgs'[m]]))
          /\ \A s \in Slots :
                (/\ DeleteSaveAndEmit(s)
                 /\ resp'.status = 200
                 /\ reqs[s].doc.conversationId \in io[k].rooms)
                    => Gets(k, Event("messageDeleted", reqs[s].doc.conversationId,
                                     [messageId |-> reqs[s].msg]))
          /\ \A caller \in RealtimeCallers, m \in MsgIds :
                (/\ ChatDeleteMessage(caller, m)
                 /\ resp'.status = 200
                 /\ msgs[m].conversationId \in io[k].rooms)
                    => Gets(k, Event("messageDeleted", msgs[m].conversationId,
                                     [messageId |-> m]))]_vars

(***************************************************************************)
(* Claims on the membership routes.                                        *)
(***************************************************************************)

\* C27: a successful update of a conversation by a member changes its
\* title (and description) only: participants, createdBy, isGroup,
\* isActive, lastMessage and lastMessageAt stay as they were, whatever keys
\* the request body carries.
C27_Claim ==
    [][\A caller \in AppendCallers, c \in ConvIds, body \in UpdateBodies :
          (UpdateConversation(caller, c, body) /\ resp'.status = 200)
              => convs'[c] = [convs[c] EXCEPT !.title = convs'[c].title]]_vars

(***************************************************************************)
(* SpecCache: two messages in the conversation, and the requests that save *)
(* one of them again: reaction, read receipt, edit.                        *)
(***************************************************************************)
NextCache ==
    \/ \E caller \in AppendCallers, c \in ConvIds, text \in Texts :
          SendOpen /\ SendMessage(caller, c, text) /\ UNCHANGED io
    \/ \E caller \in AppendCallers, m \in MsgIds, emoji \in Emojis :
          EditOpen /\ AddReactionLoad(caller, m, {emoji}) /\ UNCHANGED io
    \/ \E s \in Slots : AddReactionSave(s) /\ UNCHANGED io
    \/ \E caller \in AppendCallers, m \in MsgIds, emoji \in Emojis :
          EditOpen /\ RemoveReactionLoad(caller, m, emoji) /\ UNCHANGED io
    \/ \E s \in Slots : RemoveReactionSave(s) /\ UNCHANGED io
    \/ \E caller \in AppendCallers, m \in MsgIds : EditOpen /\ MarkReadLoad(caller, m) /\ UNCHANGED io
    \/ \E s \in Slots : MarkReadSave(s) /\ UNCHANGED io
    \/ \E caller \in AppendCallers, m \in MsgIds : EditOpen /\ EditLoad(caller, m) /\ UNCHANGED io
    \/ \E s \in Slots : EditSave(s) /\ UNCHANGED io

SpecCache == InitChat /\ [][NextCache]_vars

\* The cache of conversation c is that of its most recently created message.
CacheIsNewest(c) ==
    MessagesOf(msgs, c) # {}
        => convs[c].lastMessageAt = msgs[Newest(msgs, MessagesOf(msgs, c))].createdAt

\* The step is the save of a reaction or read-receipt request, or of an
\* edit of a message that is not the newest of its conversation.
SavesOlderOrMeta(s) ==
    \/ AddReactionSave(s)
    \/ RemoveReactionSave(s)
    \/ MarkReadSave(s)
    \/ /\ EditSave(s)
       /\ reqs[s].msg # Newest(msgs, MessagesOf(msgs, reqs[s].doc.conversationId))

\* C28: adding or removing a reaction, marking a single message read, or
\* editing a message that is not the newest one leaves the conversation's
\* lastMessage and lastMessageAt unchanged; in every state the cache is
\* that of the most recently created message, never of an older one.
C28_Claim ==
    /\ [] (\A c \in ConvIds : convs[c].exists => CacheIsNewest(c))
    /\ [][\A s \in Slots :
             SavesOlderOrMeta(s)
                 => \A c \in ConvIds :
                       /\ convs'[c].lastMessage = convs[c].lastMessage
                       /\ convs'[c].lastMessageAt = convs[c].lastMessageAt]_vars

\* C29: whenever remove-participant reports success for user u, u is no
\* longer a participant of the conversation afterwards, for every u, the
\* conversation's creator included.
C29_Claim ==
    [][\A caller \in AppendCallers, c \in ConvIds, u \in Users :
          (RemoveParticipant(caller, c, u) /\ resp'.status = 200)
              => ~HasParticipant(convs'[c], u)]_vars

\* C30: in every reachable state every participant of a conversation
\* belongs to the conversation's tenant.
C30_Claim ==
    \A c \in ConvIds :
        convs[c].exists
            => \A u \in PSet(convs[c].participants) : CompanyOf(u) = TenantOfConv(convs[c])

====
